---- MODULE Spec2Model ----
(***************************************************************************)
(* Model of the audio analysis service (backend/main.py and the adapters   *)
(* under backend/models).                                                  *)
(*                                                                         *)
(* Spec     : the FastAPI service.  Startup loads the three adapters, then *)
(*            requests run on one event loop: a handler runs without       *)
(*            interruption except at its single await (file.read()).       *)
(* SpecNorm : preprocess_audio and clip_audio_to_max_duration as pure      *)
(*            functions, applied to inputs drawn from bounded sets.        *)
(* SpecTime : the time stamps predict_all takes and the processing_time    *)
(*            entry it builds from them.                                   *)
(***************************************************************************)
EXTENDS Integers, Sequences, FiniteSets, TLC

VARIABLES
    phase,              \* "startup" before lifespan() has run load_models, then "serving"
    age_gender_model,   \* main.py:29  global adapter reference and its fields
    nationality_model,  \* main.py:30
    emotion_model,      \* main.py:31
    loadLog,            \* sequence of [fam, ok]: every adapter load() call made, in order
    now,                \* int(time.time()), in seconds
    files,              \* the upload directory: temp path -> file
    running,            \* request whose handler holds the event loop past its await, 0 if none
    rq,                 \* the requests in flight, oldest first: position, inputs, locals
    completed,          \* the request answered by the last step, with its response
    nIn, nSr, nPhase, nOut, nOut2, nClip,  \* SpecNorm: input, stage and results
    clock,              \* SpecTime: time.time(), in thirds of a millisecond
    tpc,                \* SpecTime: how many of predict_all's time stamps are taken
    marks,              \* SpecTime: the time stamps taken, by variable name
    processing_time,    \* SpecTime: the response's processing_time entry
    dIn,                \* SpecDecode: the adapter family and the logits its model returned
    dOut,               \* SpecDecode: the result predict builds from them
    upload_folder,      \* SpecFlask: the inode at each path of UPLOAD_FOLDER, 0 when absent
    workers,            \* SpecFlask: each worker thread's position in predict_from_file
    flaskIno,           \* SpecFlask: the last inode number given out
    flaskStarted,       \* SpecFlask: the number of requests started
    paused,             \* SpecWhisper: self.paused
    stop_requested,     \* SpecWhisper: self.stop_requested
    evalLoop,           \* SpecWhisper: the main thread's position in run_full_evaluation
    listeners,          \* SpecWhisper: the position of the keyboard thread each call started
    stdin_open,         \* SpecWhisper: whether input() can still return a line
    qDuring,            \* SpecWhisper: the calls during which 'q' was entered
    results,            \* SpecWhisper: what each evaluate_subset call ended with
    test_df,            \* SpecCheckpoint: what handling each dataset row gives
    checkpoint_file,    \* SpecCheckpoint: the file at checkpoint_path
    evalRun,            \* SpecCheckpoint: the running evaluate call: position and lists
    interrupts          \* SpecCheckpoint: how often the run was interrupted

svcVars == <<phase, age_gender_model, nationality_model, emotion_model, loadLog,
             now, files, running, rq, completed>>
normVars == <<nIn, nSr, nPhase, nOut, nOut2, nClip>>
timeVars == <<clock, tpc, marks, processing_time>>
decodeVars == <<dIn, dOut>>
\* The variables of the specifications other than Spec, SpecNorm and SpecTime.
flaskVars == <<upload_folder, workers, flaskIno, flaskStarted>>
whisperVars == <<paused, stop_requested, evalLoop, listeners, stdin_open, qDuring, results>>
ckptVars == <<test_df, checkpoint_file, evalRun, interrupts>>
otherVars == <<decodeVars, flaskVars, whisperVars, ckptVars>>
vars == <<phase, age_gender_model, nationality_model, emotion_model, loadLog,
          now, files, running, rq, completed, nIn, nSr, nPhase, nOut, nOut2, nClip,
          clock, tpc, marks, processing_time, dIn, dOut,
          upload_folder, workers, flaskIno, flaskStarted,
          paused, stop_requested, evalLoop, listeners, stdin_open, qDuring, results,
          test_df, checkpoint_file, evalRun, interrupts>>

(***************************************************************************)
(* Program constants                                                       *)
(***************************************************************************)
ALLOWED_EXTENSIONS ==
    { <<"w","a","v">>, <<"m","p","3">>, <<"f","l","a","c">>, <<"m","4","a">> }
SAMPLING_RATE == 16000
MAX_DURATION_SECONDS == 120

(***************************************************************************)
(* Bounds of the model                                                     *)
(***************************************************************************)
MaxTime == 1         \* the clock runs over 0..MaxTime seconds
LenSlack == 1        \* SpecNorm: sample counts within LenSlack of each threshold
MaxTicks == 9        \* SpecTime: the clock runs over 0..MaxTicks

\* The slots of requests in flight at a time.
Requests == {1, 2}
Families == {"age_gender", "nationality", "emotion"}
Endpoints == {"predict_age_and_gender", "predict_nationality", "predict_emotion",
              "predict_all"}

Min(a, b) == IF a <= b THEN a ELSE b
RECURSIVE Gcd(_, _)
Gcd(a, b) == IF b = 0 THEN a ELSE Gcd(b, a % b)
CeilDiv(a, b) == (a + b - 1) \div b

(***************************************************************************)
(* Arrays.  A numpy array is described by where its samples come from:     *)
(* src names the decoded data, ops the value-changing transformations      *)
(* applied to it (in order), off/len the slice taken of the result.        *)
(* Sample i of the array is sample off+i of (src, ops).                    *)
(***************************************************************************)
NoArr == [src |-> "none", ops |-> <<>>, off |-> 0, len |-> 0, ch |-> 0, dtype |-> "none"]

Sample(a, i) == [src |-> a.src, ops |-> a.ops, at |-> a.off + i]

\* librosa.to_mono: average the channels into one.
ToMono(a) ==
    [a EXCEPT !.ops = Append(a.ops, [op |-> "to_mono", arg |-> a.ch]), !.ch = 1]

\* librosa.resample: ceil(len * target_sr / orig_sr) new samples.
ResampleLen(n, orig_sr, target_sr) ==
    LET g == Gcd(target_sr, orig_sr)
    IN  CeilDiv(n * (target_sr \div g), orig_sr \div g)

Resample(a, orig_sr, target_sr) ==
    [a EXCEPT !.ops = Append(a.ops, [op |-> "resample", arg |-> orig_sr]),
              !.off = 0,
              !.len = ResampleLen(a.len, orig_sr, target_sr)]

\* ndarray.astype(np.float32): the values are kept when they are float32 already.
AsFloat32(a) ==
    IF a.dtype = "float32" THEN a
    ELSE [a EXCEPT !.ops = Append(a.ops, [op |-> "astype", arg |-> 32]),
                   !.dtype = "float32"]

\* audio_data[:max_samples]
Prefix(a, n) == [a EXCEPT !.len = Min(a.len, n)]

\* Faulty variant of clip_audio_to_max_duration: keeps the last max_samples samples.
clip_keep_tail(a, sr, max_duration) ==
    IF a.len <= max_duration * sr
    THEN [audio |-> a, clipped |-> FALSE]
    ELSE [audio |-> [a EXCEPT !.off = a.off + (a.len - max_duration * sr),
                              !.len = max_duration * sr],
          clipped |-> TRUE]

\* main.py:37  len/sr <= max_duration is len <= max_duration*sr for sr > 0.
clip_audio_to_max_duration(a, sr, max_duration) ==
    IF a.len <= max_duration * sr
    THEN [audio |-> a, clipped |-> FALSE]
    ELSE [audio |-> Prefix(a, max_duration * sr), clipped |-> TRUE]

\* Faulty variant of preprocess_audio: truncates to the bound's sample count
\* before resampling instead of after.
preprocess_clip_first(a, sr) ==
    LET mono == IF a.ch > 1 THEN ToMono(a) ELSE a
        c    == clip_audio_to_max_duration(mono, SAMPLING_RATE, MAX_DURATION_SECONDS)
        rs   == IF sr # SAMPLING_RATE THEN Resample(c.audio, sr, SAMPLING_RATE) ELSE c.audio
    IN  [audio |-> AsFloat32(rs), sr |-> SAMPLING_RATE, clipped |-> c.clipped]

\* Faulty variant of preprocess_audio: downmixes unconditionally.
preprocess_always_downmix(a, sr) ==
    LET mono == ToMono(a)
        rs   == IF sr # SAMPLING_RATE THEN Resample(mono, sr, SAMPLING_RATE) ELSE mono
        c    == clip_audio_to_max_duration(rs, SAMPLING_RATE, MAX_DURATION_SECONDS)
    IN  [audio |-> AsFloat32(c.audio), sr |-> SAMPLING_RATE, clipped |-> c.clipped]

\* Faulty variant of preprocess_audio: resamples unconditionally.
preprocess_always_resample(a, sr) ==
    LET mono == IF a.ch > 1 THEN ToMono(a) ELSE a
        rs   == Resample(mono, sr, SAMPLING_RATE)
        c    == clip_audio_to_max_duration(rs, SAMPLING_RATE, MAX_DURATION_SECONDS)
    IN  [audio |-> AsFloat32(c.audio), sr |-> SAMPLING_RATE, clipped |-> c.clipped]

\* main.py:132
preprocess_audio(a, sr) ==
    LET mono == IF a.ch > 1 THEN ToMono(a) ELSE a
        rs   == IF sr # SAMPLING_RATE THEN Resample(mono, sr, SAMPLING_RATE) ELSE mono
        sr2  == IF sr # SAMPLING_RATE THEN SAMPLING_RATE ELSE sr
        c    == clip_audio_to_max_duration(rs, sr2, MAX_DURATION_SECONDS)
    IN  [audio |-> AsFloat32(c.audio), sr |-> sr2, clipped |-> c.clipped]

(***************************************************************************)
(* File names.  A name is a sequence of characters, so that rsplit and     *)
(* lower() act on it as they do in the code.                               *)
(***************************************************************************)
LowerChar(c) ==
    CASE c = "A" -> "a" [] c = "C" -> "c" [] c = "F" -> "f" [] c = "L" -> "l"
      [] c = "M" -> "m" [] c = "P" -> "p" [] c = "T" -> "t" [] c = "V" -> "v"
      [] c = "W" -> "w" [] c = "X" -> "x"
      [] OTHER -> c

\* str.lower()
Lower(s) == [i \in 1..Len(s) |-> LowerChar(s[i])]

\* '.' in filename
HasDot(s) == \E i \in 1..Len(s) : s[i] = "."

\* filename.rsplit('.', 1)[1]: what follows the last '.'
AfterLastDot(s) ==
    LET last == CHOOSE i \in 1..Len(s) :
                    s[i] = "." /\ \A j \in (i+1)..Len(s) : s[j] # "."
    IN  SubSeq(s, last + 1, Len(s))

\* Faulty variant of allowed_file: the extension is compared as it is written.
allowed_file_case_sensitive(filename) ==
    HasDot(filename) /\ AfterLastDot(filename) \in ALLOWED_EXTENSIONS

\* main.py:33
allowed_file(filename) ==
    HasDot(filename) /\ Lower(AfterLastDot(filename)) \in ALLOWED_EXTENSIONS

\* Faulty variant of ValidateFilename: the extension is checked first.
ValidateFilenameExtensionFirst(filename) ==
    IF ~allowed_file(filename) THEN "invalid_type"
    ELSE IF filename = <<>> THEN "no_file"
    ELSE "ok"

\* main.py:173-178  the file name checks of process_audio_file, in their order.
ValidateFilename(filename) ==
    IF filename = <<>> THEN "no_file"
    ELSE IF ~allowed_file(filename) THEN "invalid_type"
    ELSE "ok"

(***************************************************************************)
(* Uploads the clients send: a client file name and the bytes of the file. *)
(* The bytes are named by what decoding them gives.                        *)
(***************************************************************************)
NameEmpty == <<>>
NameWav   == <<"a", ".", "w", "a", "v">>
NameMp3   == <<"b", ".", "M", "P", "3">>
NameTxt   == <<"c", ".", "t", "x", "t">>
NameNoDot == <<"w", "a", "v">>
NameWavTxt == <<"a", ".", "w", "a", "v", ".", "t", "x", "t">>
FileNames == {NameEmpty, NameWav, NameMp3, NameTxt, NameNoDot, NameWavTxt}

Contents == {"corrupt", "long16k", "short44k"}

Uploads ==
    { [fname |-> NameEmpty, content |-> "short44k"],
      [fname |-> NameTxt,   content |-> "short44k"],
      [fname |-> NameNoDot, content |-> "short44k"],
      [fname |-> NameWavTxt, content |-> "short44k"],
      [fname |-> NameWav,   content |-> "corrupt"],
      [fname |-> NameWav,   content |-> "long16k"],
      [fname |-> NameMp3,   content |-> "short44k"] }

\* librosa.load(filepath, sr=None): mono float32 samples at the file's own rate,
\* or an exception when the bytes are not audio.
Decodable(data) == data \in {"long16k", "short44k"}

DecodedRate(data) == IF data = "long16k" THEN 16000 ELSE 44100

DecodedAudio(data) ==
    [src |-> data, ops |-> <<>>, off |-> 0,
     len |-> IF data = "long16k" THEN 200 * 16000 ELSE 5 * 44100,
     ch |-> 1, dtype |-> "float32"]

(***************************************************************************)
(* Adapters                                                                *)
(***************************************************************************)
\* A global that is still None (main.py:29-31).
NoAgeGender   == [obj |-> FALSE, model |-> FALSE, interface |-> FALSE]
NoNationality == [obj |-> FALSE, processor |-> FALSE, model |-> FALSE]
NoEmotion     == [obj |-> FALSE, processor |-> FALSE, model |-> FALSE, emotion_labels |-> FALSE]

\* What a load() call can do: the step at which it fails, or "ok".
AgeGenderLoadOutcomes   == {"download_failed", "model_raises", "interface_raises", "ok"}
NationalityLoadOutcomes == {"processor_raises", "model_raises", "ok"}
EmotionLoadOutcomes     == {"processor_raises", "model_raises", "labels_raise", "ok"}

\* age_and_gender_model.py:72  the fields load() leaves behind
AgeGenderModel_load(o) ==
    [obj |-> TRUE,
     model |-> o \in {"interface_raises", "ok"},
     interface |-> o = "ok"]

\* nationality_model.py:26
NationalityModel_load(o) ==
    [obj |-> TRUE,
     processor |-> o \in {"model_raises", "ok"},
     model |-> o = "ok"]

\* emotions_model.py:40
EmotionModel_load(o) ==
    [obj |-> TRUE,
     processor |-> o \in {"model_raises", "labels_raise", "ok"},
     model |-> o \in {"labels_raise", "ok"},
     emotion_labels |-> o = "ok"]

\* The value load() returns.
LoadReturns(o) == o = "ok"

\* The endpoints' and root()'s check (main.py:229, 249, 295, 341):
\* X is not None and hasattr(X, 'model') and X.model is not None
ModelLoadedCheck(m) == m.obj /\ m.model

\* The guard at the head of each adapter's predict.
AgeGenderModel_ready(m)   == m.model /\ m.interface
NationalityModel_ready(m) == m.model /\ m.processor
EmotionModel_ready(m)     == m.model /\ m.processor

\* Faulty variant of load_models: every adapter is constructed and loaded,
\* whatever became of the ones before it.
load_models_attempt_all(oa, on, oe) ==
    LET ageCtor == oa # "ctor_raises"
        natCtor == on # "ctor_raises"
        emoCtor == oe # "ctor_raises"
    IN  [age_gender  |-> IF ageCtor THEN AgeGenderModel_load(oa) ELSE NoAgeGender,
         nationality |-> IF natCtor THEN NationalityModel_load(on) ELSE NoNationality,
         emotion     |-> IF emoCtor THEN EmotionModel_load(oe) ELSE NoEmotion,
         log |-> (IF ageCtor THEN <<[fam |-> "age_gender", ok |-> LoadReturns(oa)]>> ELSE <<>>)
                 \o (IF natCtor THEN <<[fam |-> "nationality", ok |-> LoadReturns(on)]>> ELSE <<>>)
                 \o (IF emoCtor THEN <<[fam |-> "emotion", ok |-> LoadReturns(oe)]>> ELSE <<>>),
         success |-> LoadReturns(oa) /\ LoadReturns(on) /\ LoadReturns(oe)]

\* main.py:54  load_models: the adapters are constructed and loaded in turn and
\* the function returns False at the first load() that fails; an exception
\* (a constructor that raises) is caught and also gives False.  oa, on, oe say
\* what each adapter's construction and load() would do.
load_models(oa, on, oe) ==
    LET ageCtor == oa # "ctor_raises"
        ageOk   == ageCtor /\ LoadReturns(oa)
        natCtor == ageOk /\ on # "ctor_raises"
        natOk   == natCtor /\ LoadReturns(on)
        emoCtor == natOk /\ oe # "ctor_raises"
        emoOk   == emoCtor /\ LoadReturns(oe)
    IN  [age_gender  |-> IF ageCtor THEN AgeGenderModel_load(oa) ELSE NoAgeGender,
         nationality |-> IF natCtor THEN NationalityModel_load(on) ELSE NoNationality,
         emotion     |-> IF emoCtor THEN EmotionModel_load(oe) ELSE NoEmotion,
         log |-> (IF ageCtor THEN <<[fam |-> "age_gender", ok |-> ageOk]>> ELSE <<>>)
                 \o (IF natCtor THEN <<[fam |-> "nationality", ok |-> natOk]>> ELSE <<>>)
                 \o (IF emoCtor THEN <<[fam |-> "emotion", ok |-> emoOk]>> ELSE <<>>),
         success |-> emoOk]

\* A load() call on the family's adapter has returned True.
LoadSucceeded(f) == \E i \in 1..Len(loadLog) : loadLog[i].fam = f /\ loadLog[i].ok

(***************************************************************************)
(* The upload directory.  A file is an inode linked at a path; an open     *)
(* handle names the inode, so a write through a handle whose inode has     *)
(* been unlinked changes nothing that a later open of the path can see.    *)
(***************************************************************************)
\* main.py:185-186  f"temp_{int(time.time())}_{file.filename}" under UPLOAD_FOLDER
TempPath(t, filename) == [ts |-> t, name |-> filename]

Paths == [ts : 0..MaxTime, name : FileNames]
NoFile == [exists |-> FALSE, ino |-> 0, data |-> "none"]

\* buffer.write(content) from offset 0 through a handle on inode h.
WriteAt0(old, new) == IF old \in {"empty", new} THEN new ELSE "mixed"

Write(fs, p, h, content) ==
    IF fs[p].exists /\ fs[p].ino = h
    THEN [fs EXCEPT ![p].data = WriteAt0(fs[p].data, content)]
    ELSE fs

\* Faulty variant of Cleanup: a file that has been written is left in place.
CleanupEmptyOnly(fs, p) ==
    IF fs[p].exists /\ fs[p].data = "empty" THEN [fs EXCEPT ![p] = NoFile] ELSE fs

\* Faulty variant of Cleanup: the file is left in place.
NoCleanup(fs, p) == fs

\* main.py:216-220  finally: if os.path.exists(filepath): os.remove(filepath)
Cleanup(fs, p) == IF fs[p].exists THEN [fs EXCEPT ![p] = NoFile] ELSE fs

(***************************************************************************)
(* Requests                                                                *)
(***************************************************************************)
NoDetail == [msg |-> "none", cause |-> "none"]
NoModelsLoaded == [age_gender |-> FALSE, nationality |-> FALSE, emotion |-> FALSE]
\* A body without a "processing_time" key.
NoTimes == [form |-> "none", keys |-> {}]
NoResp == [status |-> 0, detail |-> NoDetail, success |-> FALSE, families |-> {},
           was_clipped |-> FALSE, warning |-> FALSE, models_loaded |-> NoModelsLoaded,
           times |-> NoTimes]
NoSig == [audio |-> NoArr, sr |-> 0, clipped |-> FALSE]
NoRequest ==
    [pc |-> "none", ep |-> "none", fname |-> <<>>, content |-> "none",
     hasPath |-> FALSE, path |-> TempPath(0, <<>>), fd |-> 0,
     opens |-> 0, saves |-> 0, decodes |-> 0, norms |-> 0,
     sig |-> NoSig, calls |-> <<>>, resp |-> NoResp]

\* raise HTTPException(status_code=..., detail=...)
HTTPException(status, msg, cause) ==
    [status |-> status, detail |-> [msg |-> msg, cause |-> cause], success |-> FALSE,
     families |-> {}, was_clipped |-> FALSE, warning |-> FALSE,
     models_loaded |-> NoModelsLoaded, times |-> NoTimes]

\* Faulty variant of EndpointFamilies: predict_all runs nationality first.
EndpointFamiliesReordered(ep) ==
    CASE ep = "predict_age_and_gender" -> <<"age_gender">>
      [] ep = "predict_nationality"    -> <<"nationality">>
      [] ep = "predict_emotion"        -> <<"emotion">>
      [] ep = "predict_all"            -> <<"nationality", "age_gender", "emotion">>
      [] ep = "root"                   -> <<>>

\* The adapters an endpoint checks and then invokes, in the order of its code
\* (main.py:249-259, 295-305, 341-351, 387-416); root() invokes none.
EndpointFamilies(ep) ==
    CASE ep = "predict_age_and_gender" -> <<"age_gender">>
      [] ep = "predict_nationality"    -> <<"nationality">>
      [] ep = "predict_emotion"        -> <<"emotion">>
      [] ep = "predict_all"            -> <<"age_gender", "nationality", "emotion">>
      [] ep = "root"                   -> <<>>

Required(ep) == {EndpointFamilies(ep)[i] : i \in 1..Len(EndpointFamilies(ep))}

CheckPasses(f) ==
    CASE f = "age_gender"  -> ModelLoadedCheck(age_gender_model)
      [] f = "nationality" -> ModelLoadedCheck(nationality_model)
      [] f = "emotion"     -> ModelLoadedCheck(emotion_model)

NotLoadedMsg(f) ==
    CASE f = "age_gender"  -> "Age & gender model not loaded"
      [] f = "nationality" -> "Nationality model not loaded"
      [] f = "emotion"     -> "Emotion model not loaded"

\* The first of the endpoint's checks that fails, 0 if all pass.
FirstFailedCheck(ep) ==
    LET fams == EndpointFamilies(ep)
        bad  == {i \in 1..Len(fams) : ~CheckPasses(fams[i])}
    IN  IF bad = {} THEN 0 ELSE CHOOSE i \in bad : \A j \in bad : i <= j

PredictReady(f) ==
    CASE f = "age_gender"  -> AgeGenderModel_ready(age_gender_model)
      [] f = "nationality" -> NationalityModel_ready(nationality_model)
      [] f = "emotion"     -> EmotionModel_ready(emotion_model)

\* Whether inference on a ready adapter can complete: EmotionModel.predict
\* indexes emotion_labels (emotions_model.py:102), which raises while it is None.
CanReturn(f) == f # "emotion" \/ emotion_model.emotion_labels

PredictionErrorMsg(f) ==
    CASE f = "age_gender"  -> "Age & gender prediction error"
      [] f = "nationality" -> "Nationality prediction error"
      [] f = "emotion"     -> "Emotion prediction error"

\* Faulty variant of AdapterAfterPredict: a predict that raises drops the model.
AdapterDroppedOnError(m, outcome) ==
    IF outcome = "raised" THEN [m EXCEPT !.model = FALSE] ELSE m

\* The adapter's fields after a predict call: none of the predict methods
\* assigns an attribute of self (age_and_gender_model.py:100-139,
\* nationality_model.py:45-86, emotions_model.py:75-118).
AdapterAfterPredict(m, outcome) == m

\* Faulty variant of RootReport: reports whether load() returned True.
RootReportFromLoadResult ==
    [age_gender  |-> LoadSucceeded("age_gender"),
     nationality |-> LoadSucceeded("nationality"),
     emotion     |-> LoadSucceeded("emotion")]

\* main.py:228-232  root(): "models_loaded"
RootReport ==
    [age_gender  |-> ModelLoadedCheck(age_gender_model),
     nationality |-> ModelLoadedCheck(nationality_model),
     emotion     |-> ModelLoadedCheck(emotion_model)]

\* Faulty variant of AdapterInput: the rate passed is not the returned one.
AdapterInputWrongRate(sig, content) == [audio |-> sig.audio, sr |-> DecodedRate(content)]

\* What an endpoint passes to predict: processed_audio, processed_sr.
AdapterInput(sig, content) == [audio |-> sig.audio, sr |-> sig.sr]

\* Faulty variant of ProcessingTimeForm: every endpoint reports an object.
ProcessingTimeFormObject(ep) ==
    [form |-> "object",
     keys |-> {"total"} \cup {EndpointFamilies(ep)[i] : i \in 1..Len(EndpointFamilies(ep))}]

\* The form of "processing_time" in a success response: the single-family
\* endpoints report one number, round(endpoint_end - endpoint_start, 3)
\* (main.py:272, 318, 364); predict_all reports an object (main.py:439-444).
ProcessingTimeForm(ep) ==
    IF ep = "predict_all"
    THEN [form |-> "object", keys |-> {"total", "age_gender", "nationality", "emotion"}]
    ELSE [form |-> "number", keys |-> {}]

\* Faulty variant of SuccessResponse: the warning is left out.
SuccessResponseNoWarning(ep, calls, sig) ==
    [status |-> 200, detail |-> NoDetail, success |-> TRUE,
     families |-> {calls[i].fam : i \in {j \in 1..Len(calls) : calls[j].outcome = "returned"}},
     was_clipped |-> sig.clipped, warning |-> FALSE, models_loaded |-> NoModelsLoaded,
     times |-> ProcessingTimeForm(ep)]

\* The success response (main.py:269-282, 432-454).
SuccessResponse(ep, calls, sig) ==
    [status |-> 200, detail |-> NoDetail, success |-> TRUE,
     families |-> {calls[i].fam : i \in {j \in 1..Len(calls) : calls[j].outcome = "returned"}},
     was_clipped |-> sig.clipped, warning |-> sig.clipped,
     models_loaded |-> NoModelsLoaded, times |-> ProcessingTimeForm(ep)]

\* What the endpoint logs about the predictions before it builds the response
\* (main.py:263-264, 309-310, 355-356, 421-424).  predict_emotion reads
\* predictions['top_emotions'] (main.py:356), a key EmotionModel.predict does not
\* return (emotions_model.py:111-115): the KeyError reaches the endpoint's
\* except Exception and is answered as HTTPException(500, str(e)).
LoggingRaises(ep) == ep = "predict_emotion"

\* Faulty variant of PredictFailure: the results so far are returned as a success.
PredictFailurePartial(ep, f, calls, sig, readyGuard) == SuccessResponse(ep, calls, sig)

\* An exception out of predict (main.py:286-288, 458-460): HTTPException(500, str(e)).
\* The adapter's own guard raises ValueError("Model not loaded. Call load() first.").
PredictFailure(ep, f, calls, sig, readyGuard) ==
    IF readyGuard
    THEN HTTPException(500, PredictionErrorMsg(f), "inference")
    ELSE HTTPException(500, "Model not loaded. Call load() first.", "none")

\* Faulty variant of IngestFailure: the cause is not passed on.
IngestFailureNoCause(cause) == HTTPException(500, "Error processing audio file", "none")

\* main.py:213-215  an exception inside process_audio_file's try block:
\* HTTPException(500, f"Error processing audio file: {str(e)}")
IngestFailure(cause) == HTTPException(500, "Error processing audio file", cause)

(***************************************************************************)
(* The service.  rq holds the requests in flight, one per slot; a request  *)
(* that is answered leaves its slot, and completed holds it, as answered,  *)
(* in the state its answer is sent in.                                     *)
(***************************************************************************)
NoCompleted == [NoRequest EXCEPT !.pc = "none"]

SvcInit ==
    /\ phase = "startup"
    /\ age_gender_model = NoAgeGender
    /\ nationality_model = NoNationality
    /\ emotion_model = NoEmotion
    /\ loadLog = <<>>
    /\ now = 0
    /\ files = [p \in Paths |-> NoFile]
    /\ running = 0
    /\ rq = [r \in Requests |-> NoRequest]
    /\ completed = NoCompleted

NormOff ==
    /\ nIn = NoArr /\ nSr = 0 /\ nPhase = "off"
    /\ nOut = NoSig /\ nOut2 = NoSig /\ nClip = [audio |-> NoArr, clipped |-> FALSE]

\* predict_all's time stamps, in the order in which the handler takes them
\* (main.py:384, 402, 405, 408, 411, 414, 417, 427).
StampOrder ==
    << "endpoint_start",
       "age_prediction_start", "age_prediction_end",
       "nationality_prediction_start", "nationality_prediction_end",
       "emotion_prediction_start", "emotion_prediction_end",
       "endpoint_end" >>

Stamps == {StampOrder[i] : i \in 1..Len(StampOrder)}
NoProcessingTime == [total |-> 0, age_gender |-> 0, nationality |-> 0, emotion |-> 0]

TimeOff ==
    /\ clock = 0 /\ tpc = 0
    /\ marks = [m \in Stamps |-> 0]
    /\ processing_time = NoProcessingTime

NoResult == [fam |-> "none"]

DecodeOff == dIn = [fam |-> "none"] /\ dOut = NoResult

\* The specifications other than Spec, SpecNorm and SpecTime are not running.
FlaskWorkers == {1, 2}

\* request.files: whether the 'file' part is there, and its filename
FlaskRequests ==
    [present : BOOLEAN,
     filename : {NameEmpty, NameTxt, NameWav, NameMp3,
                 <<".", ".", "/", "a", ".", "w", "a", "v">>}]

\* werkzeug's secure_filename on these names: path separators become "_",
\* then leading and trailing "." and "_" are stripped
secure_filename(filename) ==
    LET r == [i \in 1..Len(filename) |->
                 IF filename[i] = "/" THEN "_" ELSE filename[i]]
        keep == {i \in 1..Len(r) : r[i] \notin {".", "_"}}
    IN IF keep = {} THEN << >>
       ELSE SubSeq(r, CHOOSE i \in keep : \A j \in keep : i <= j,
                      CHOOSE i \in keep : \A j \in keep : j <= i)

\* the paths under UPLOAD_FOLDER the handler can write
FlaskPaths ==
    {secure_filename(req.filename) : req \in {q \in FlaskRequests : allowed_file(q.filename)}}

\* SpecFlask's variables before any request
FlaskOff ==
    /\ upload_folder = [p \in FlaskPaths |-> 0]
    /\ workers = [t \in FlaskWorkers |-> [pc |-> "idle", filepath |-> << >>, ino |-> 0, resp |-> "none"]]
    /\ flaskIno = 0
    /\ flaskStarted = 0

\* WhisperFLEURSEvaluator.__init__, before run_full_evaluation; evals is
\* the list of evaluate_subset calls the configuration enables
WhisperStart(evals) ==
    /\ paused = FALSE
    /\ stop_requested = FALSE
    /\ evalLoop = [pc |-> "idle", call |-> 0, done |-> 0, todo |-> evals]
    /\ listeners = [c \in {1, 2} |-> "none"]
    /\ stdin_open = TRUE
    /\ qDuring = {}
    /\ results = [c \in {1, 2} |-> [ended |-> FALSE, num_samples |-> 0, raised |-> FALSE]]

WhisperOff == WhisperStart(<< >>)

\* no file at checkpoint_path
NoCheckpoint ==
    [state |-> "absent", predictions |-> << >>, ground_truth |-> << >>,
     skipped_files |-> << >>, last_processed_idx |-> -1]

\* no evaluate call running, nothing in memory
NoRun(pc) ==
    [pc |-> pc, idx |-> 0, start_idx |-> 0, predictions |-> << >>,
     ground_truth |-> << >>, skipped_files |-> << >>]

\* AgeGenderEvaluator before evaluate, over the dataset rows df
CheckpointStart(df) ==
    /\ test_df = df
    /\ checkpoint_file = NoCheckpoint
    /\ evalRun = NoRun("off")
    /\ interrupts = 0

CheckpointOff == CheckpointStart(<< >>)

OtherOff == DecodeOff /\ FlaskOff /\ WhisperOff /\ CheckpointOff

Init == SvcInit /\ NormOff /\ TimeOff /\ OtherOff

\* main.py:106  lifespan: load_models runs to its end before any request is served.
LoadModels ==
    /\ phase = "startup"
    /\ \E oa \in AgeGenderLoadOutcomes \cup {"ctor_raises"},
          on \in NationalityLoadOutcomes \cup {"ctor_raises"},
          oe \in EmotionLoadOutcomes \cup {"ctor_raises"} :
          LET m == load_models(oa, on, oe)
          IN  /\ age_gender_model' = m.age_gender
              /\ nationality_model' = m.nationality
              /\ emotion_model' = m.emotion
              /\ loadLog' = m.log
    /\ phase' = "serving"
    /\ UNCHANGED <<now, files, running, rq, completed>>
    /\ UNCHANGED <<normVars, timeVars, otherVars>>

\* The clock passes a second boundary.
Tick ==
    /\ phase = "serving"
    /\ now < MaxTime
    /\ now' = now + 1
    /\ completed' = NoCompleted
    /\ UNCHANGED <<phase, age_gender_model, nationality_model, emotion_model, loadLog,
                   files, running, rq>>
    /\ UNCHANGED <<normVars, timeVars, otherVars>>

Done(q, resp) == [q EXCEPT !.pc = "done", !.resp = resp]

\* The requests in flight once the one in slot r has been answered: rq lists
\* them in the order in which they started.
Release(r) ==
    [s \in Requests |->
        IF s < r THEN rq[s]
        ELSE IF s + 1 \in Requests THEN rq[s + 1]
        ELSE NoRequest]

\* An inode number no file and no open handle uses.
FreshIno ==
    LET used == {files[p].ino : p \in Paths} \cup {rq[r].fd : r \in Requests}
    IN  CHOOSE i \in 1..(2 * Cardinality(Requests) + 1) : i \notin used

\* open(filepath, "wb"): truncates the file at the path, or creates it.
Open(fs, p, ino) ==
    IF fs[p].exists THEN [fs EXCEPT ![p].data = "empty"]
    ELSE [fs EXCEPT ![p] = [exists |-> TRUE, ino |-> ino, data |-> "empty"]]

\* A client posts upload u to endpoint ep and the handler runs from its entry to
\* the await in process_audio_file: the endpoint's model checks, the file name
\* checks, the temp path and open(filepath, "wb") (main.py:245-254 and 169-192,
\* likewise for the other endpoints).
Start(r, u, ep) ==
    /\ phase = "serving"
    /\ rq[r].pc = "none"
    /\ \A r0 \in Requests : r0 < r => rq[r0].pc # "none"
    /\ running = 0
    /\ LET q == [NoRequest EXCEPT !.ep = ep, !.fname = u.fname, !.content = u.content]
           k == FirstFailedCheck(ep)
           p == TempPath(now, u.fname)
           answer(qq, resp) == /\ completed' = Done(qq, resp)
                               /\ rq' = rq
       IN  IF k # 0
           THEN /\ answer(q, HTTPException(500, NotLoadedMsg(EndpointFamilies(ep)[k]), "none"))
                /\ files' = files
           ELSE IF ValidateFilename(u.fname) = "no_file"
           THEN /\ answer(q, HTTPException(400, "No file selected", "none"))
                /\ files' = files
           ELSE IF ValidateFilename(u.fname) = "invalid_type"
           THEN /\ answer(q, HTTPException(400, "Invalid file type. Allowed: wav, mp3, flac, m4a", "none"))
                /\ files' = files
           ELSE \E openOK \in BOOLEAN :
                  IF openOK
                  THEN /\ files' = Open(files, p, FreshIno)
                       /\ rq' = [rq EXCEPT ![r] =
                             [q EXCEPT !.pc = "reading", !.hasPath = TRUE, !.path = p,
                                       !.opens = 1,
                                       !.fd = Open(files, p, FreshIno)[p].ino]]
                       /\ completed' = NoCompleted
                  ELSE /\ files' = Cleanup(files, p)
                       /\ answer([q EXCEPT !.hasPath = TRUE, !.path = p],
                                 IngestFailure("open"))
    /\ UNCHANGED <<phase, age_gender_model, nationality_model, emotion_model, loadLog,
                   now, running>>
    /\ UNCHANGED <<normVars, timeVars, otherVars>>

\* The handler from the return of file.read() to the return of
\* process_audio_file: write, close, librosa.load, preprocess_audio, and the
\* finally block (main.py:192-220).  fault names a step that raises although
\* its input is good.
Resume(r, fault) ==
    /\ rq[r].pc = "reading"
    /\ running = 0
    /\ LET q == rq[r]
           p == q.path
           written == Write(files, p, q.fd, q.content)
           data == written[p].data
           fail(qq, cause) ==
               /\ completed' = Done([qq EXCEPT !.fd = 0], IngestFailure(cause))
               /\ rq' = Release(r)
               /\ running' = 0
       IN  IF fault \in {"read", "write"}
           THEN /\ files' = Cleanup(files, p)
                /\ fail(q, fault)
           ELSE IF ~written[p].exists
           THEN /\ files' = Cleanup(written, p)
                /\ fail([q EXCEPT !.saves = @ + 1, !.decodes = @ + 1], "file_not_found")
           ELSE IF ~Decodable(data)
           THEN /\ files' = Cleanup(written, p)
                /\ fail([q EXCEPT !.saves = @ + 1, !.decodes = @ + 1], "decode")
           ELSE IF fault = "preprocess"
           THEN /\ files' = Cleanup(written, p)
                /\ fail([q EXCEPT !.saves = @ + 1, !.decodes = @ + 1, !.norms = @ + 1],
                        "preprocess")
           ELSE /\ files' = Cleanup(written, p)
                /\ rq' = [rq EXCEPT ![r] =
                      [q EXCEPT !.pc = "predict", !.fd = 0, !.saves = @ + 1,
                                !.decodes = @ + 1, !.norms = @ + 1,
                                !.sig = preprocess_audio(DecodedAudio(data), DecodedRate(data))]]
                /\ completed' = NoCompleted
                /\ running' = r
    /\ UNCHANGED <<phase, age_gender_model, nationality_model, emotion_model, loadLog, now>>
    /\ UNCHANGED <<normVars, timeVars, otherVars>>

\* The next adapter's predict call of the handler, and what follows it: the next
\* call, the success response after the last one, or the error response
\* (main.py:256-288, 402-460).
Predict(r, returns) ==
    /\ rq[r].pc = "predict"
    /\ running = r
    /\ LET q == rq[r]
           fams == EndpointFamilies(q.ep)
           f == fams[Len(q.calls) + 1]
           arg == AdapterInput(q.sig, q.content)
           ready == PredictReady(f)
           call == [fam |-> f,
                    outcome |-> IF returns THEN "returned" ELSE "raised",
                    audio |-> arg.audio, sr |-> arg.sr]
           calls2 == Append(q.calls, call)
           q2 == [q EXCEPT !.calls = calls2]
       IN  /\ returns => (ready /\ CanReturn(f))
           /\ IF ~returns
              THEN /\ completed' = Done(q2, PredictFailure(q.ep, f, calls2, q.sig, ready))
                   /\ rq' = Release(r)
                   /\ running' = 0
              ELSE IF Len(calls2) = Len(fams)
              THEN /\ completed' = Done(q2,
                        IF LoggingRaises(q.ep)
                        THEN HTTPException(500, "'top_emotions'", "logging")
                        ELSE SuccessResponse(q.ep, calls2, q.sig))
                   /\ rq' = Release(r)
                   /\ running' = 0
              ELSE /\ rq' = [rq EXCEPT ![r] = q2]
                   /\ completed' = NoCompleted
                   /\ running' = running
           /\ age_gender_model' =
                 IF f = "age_gender" THEN AdapterAfterPredict(age_gender_model, call.outcome)
                 ELSE age_gender_model
           /\ nationality_model' =
                 IF f = "nationality" THEN AdapterAfterPredict(nationality_model, call.outcome)
                 ELSE nationality_model
           /\ emotion_model' =
                 IF f = "emotion" THEN AdapterAfterPredict(emotion_model, call.outcome)
                 ELSE emotion_model
    /\ UNCHANGED <<phase, loadLog, now, files>>
    /\ UNCHANGED <<normVars, timeVars, otherVars>>

\* main.py:222  GET /: the handler has no await and runs when the event loop is free.
Root ==
    /\ phase = "serving"
    /\ running = 0
    /\ completed' = Done([NoRequest EXCEPT !.ep = "root"],
                         [NoResp EXCEPT !.status = 200, !.models_loaded = RootReport])
    /\ UNCHANGED <<phase, age_gender_model, nationality_model, emotion_model, loadLog,
                   now, files, running, rq>>
    /\ UNCHANGED <<normVars, timeVars, otherVars>>

Next ==
    \/ LoadModels
    \/ Tick
    \/ \E r \in Requests, u \in Uploads, ep \in Endpoints : Start(r, u, ep)
    \/ \E r \in Requests, fault \in {"none", "read", "write", "preprocess"} : Resume(r, fault)
    \/ \E r \in Requests, returns \in BOOLEAN : Predict(r, returns)
    \/ Root

Spec == Init /\ [][Next]_vars

(***************************************************************************)
(* Properties of the service (Spec)                                        *)
(***************************************************************************)
InFlight == {r \in Requests : rq[r].pc # "none"}
Answered == completed.pc = "done"

\* C1: once process_audio_file has returned or raised for a request that got
\* past the file name checks, the request's temporary file does not exist:
\* neither while the handler goes on to the predictions nor when the answer
\* is sent, whether saving, decoding and preprocessing succeeded or failed.
C1_TempFileRemoved ==
    /\ \A r \in Requests : rq[r].pc = "predict" => ~files[rq[r].path].exists
    /\ (Answered /\ completed.hasPath) => ~files[completed.path].exists

C1_Witness ==
    /\ Answered /\ completed.hasPath /\ completed.saves = 1
    /\ completed.resp.status = 500 /\ completed.resp.detail.cause = "decode"
    /\ ~files[completed.path].exists

\* C2: two requests in flight at the same time have different temporary
\* paths, and each one's temporary file stays the file it opened until it
\* removes it itself.
C2_DistinctTempPaths ==
    /\ \A r1, r2 \in Requests :
          (r1 # r2 /\ rq[r1].pc = "reading" /\ rq[r2].pc = "reading")
              => rq[r1].path # rq[r2].path
    /\ \A r \in Requests :
          rq[r].pc = "reading"
              => (files[rq[r].path].exists /\ files[rq[r].path].ino = rq[r].fd)

\* The first adapter, in the endpoint's order, on which no load() returned True.
FirstNotLoaded(ep) ==
    LET fams == EndpointFamilies(ep)
        bad  == {i \in 1..Len(fams) : ~LoadSucceeded(fams[i])}
    IN  fams[CHOOSE i \in bad : \A j \in bad : i <= j]

NeedsUnloaded(ep) == \E f \in Required(ep) : ~LoadSucceeded(f)

\* C3: a request to an endpoint that needs an adapter which is not loaded is
\* answered 500 "<family> model not loaded" before any other work: no
\* temporary file is opened or written, nothing is decoded or normalized and
\* no predict is invoked, so such a request is never in flight past its entry.
C3_FailFastWhenNotLoaded ==
    /\ \A r \in InFlight : ~NeedsUnloaded(rq[r].ep)
    /\ (Answered /\ NeedsUnloaded(completed.ep)) =>
          /\ completed.resp.status = 500
          /\ completed.resp.detail.msg = NotLoadedMsg(FirstNotLoaded(completed.ep))
          /\ completed.opens = 0 /\ completed.saves = 0
          /\ completed.decodes = 0 /\ completed.norms = 0
          /\ completed.calls = <<>>

AllReturned(calls) == \A i \in 1..Len(calls) : calls[i].outcome = "returned"

\* C4: the answer to a predict_all request is either a success carrying the
\* results of all three families, each from a predict call that returned, or
\* an error carrying no results.
C4_AllOrNothing ==
    (Answered /\ completed.ep = "predict_all") =>
        \/ /\ completed.resp.status = 200 /\ completed.resp.success
           /\ completed.resp.families = Families
           /\ Len(completed.calls) = 3 /\ AllReturned(completed.calls)
        \/ /\ completed.resp.status \in {400, 500} /\ ~completed.resp.success
           /\ completed.resp.families = {}

C4_Witness ==
    /\ Answered /\ completed.ep = "predict_all"
    /\ Len(completed.calls) = 2
    /\ completed.calls[1].outcome = "returned" /\ completed.calls[2].outcome = "raised"
    /\ ~completed.resp.success /\ completed.resp.families = {}

IngestedOnce(q) ==
    /\ q.opens <= 1 /\ q.saves <= 1 /\ q.decodes <= 1 /\ q.norms <= 1
    /\ q.calls # <<>> =>
          /\ q.opens = 1 /\ q.saves = 1 /\ q.decodes = 1 /\ q.norms = 1
          /\ \A i \in 1..Len(q.calls) :
                q.calls[i].audio = q.sig.audio /\ q.calls[i].sr = q.sig.sr
    /\ q.pc = "predict" => q.norms = 1

\* C9: a request saves and decodes its upload at most once and normalizes it
\* at most once, exactly once when any adapter is invoked, whether the
\* endpoint runs one family or three, and every predict call of the request
\* gets the signal and the rate that normalization returned.
C9_IngestOnce ==
    /\ \A r \in Requests : IngestedOnce(rq[r])
    /\ IngestedOnce(completed)

C9_Witness ==
    /\ Answered /\ completed.ep = "predict_all" /\ completed.resp.success
    /\ completed.content = "short44k"
    /\ Len(completed.calls) = 3 /\ completed.norms = 1 /\ completed.decodes = 1
    /\ completed.calls[3].sr = SAMPLING_RATE

IsPrefix(s, t) == Len(s) <= Len(t) /\ \A i \in 1..Len(s) : s[i] = t[i]

CallOrder(q) ==
    /\ IsPrefix([i \in 1..Len(q.calls) |-> q.calls[i].fam],
                <<"age_gender", "nationality", "emotion">>)
    /\ \A i \in 1..Len(q.calls) :
          q.calls[i].outcome = "raised" => (i = Len(q.calls) /\ q.pc = "done")

\* C10: in a predict_all request the predict calls are made one after the
\* other in the order age/gender, nationality, emotion, each after the one
\* before it has returned; a call that raises is the request's last.
C10_SequentialOrder ==
    /\ \A r \in Requests : rq[r].ep = "predict_all" => CallOrder(rq[r])
    /\ completed.ep = "predict_all" => CallOrder(completed)
    /\ Cardinality({r \in Requests : rq[r].pc = "predict"}) <= 1

C10_Witness ==
    /\ Answered /\ completed.ep = "predict_all"
    /\ Len(completed.calls) = 1 /\ completed.calls[1].outcome = "raised"
    /\ completed.calls[1].fam = "age_gender"

\* C12: a success response of any prediction endpoint has the warning field
\* exactly when preprocess_audio returned was_clipped = True for the request,
\* and its audio_info.was_clipped is that flag.
C12_WarningIffClipped ==
    (Answered /\ completed.resp.success) =>
        /\ completed.norms = 1
        /\ completed.resp.warning <=> completed.sig.clipped
        /\ completed.resp.was_clipped <=> completed.sig.clipped

C12_Witness ==
    /\ Answered /\ completed.resp.success /\ completed.ep = "predict_nationality"
    /\ completed.sig.clipped /\ completed.sig.audio.len = MAX_DURATION_SECONDS * SAMPLING_RATE
    /\ completed.resp.warning /\ completed.resp.was_clipped

\* The file names of the model, by what the extension rule says of them.
NamesWithoutAllowedExtension == {NameTxt, NameNoDot, NameWavTxt}
NamesWithAllowedExtension == {NameWav, NameMp3}

ChecksPassed(q) == q.ep \in Endpoints /\ FirstFailedCheck(q.ep) = 0

\* C13: when the endpoint's model checks pass, a non-empty file name without a
\* '.', or whose text after the last '.' is not wav, mp3, flac or m4a in any
\* letter case, is answered 400 "Invalid file type" and no temporary file is
\* opened or written for it; a name whose extension is in the set gets past
\* the file name checks.
C13_InvalidFileTypeRejected ==
    /\ \A r \in InFlight : rq[r].fname \in NamesWithAllowedExtension
    /\ (Answered /\ ChecksPassed(completed)) =>
          /\ completed.fname \in NamesWithoutAllowedExtension =>
                /\ completed.resp.status = 400
                /\ completed.resp.detail.msg = "Invalid file type. Allowed: wav, mp3, flac, m4a"
                /\ ~completed.hasPath /\ completed.opens = 0 /\ completed.saves = 0
          /\ completed.fname \in NamesWithAllowedExtension =>
                /\ completed.hasPath
                /\ completed.resp.status # 400

C13_Witness ==
    /\ Answered /\ ChecksPassed(completed) /\ completed.fname = NameWavTxt
    /\ completed.resp.status = 400 /\ completed.opens = 0
    /\ \E r \in InFlight : rq[r].fname = NameMp3

\* C14: when the endpoint's model checks pass, a request with an empty file
\* name is answered 400 "No file selected", although the extension check would
\* reject the name too; no temporary file is opened or written and no predict
\* is invoked.
C14_NoFileSelected ==
    /\ \A r \in InFlight : rq[r].fname # <<>>
    /\ (Answered /\ ChecksPassed(completed) /\ completed.fname = <<>>) =>
          /\ completed.resp.status = 400
          /\ completed.resp.detail.msg = "No file selected"
          /\ ~completed.hasPath /\ completed.opens = 0 /\ completed.saves = 0
          /\ completed.calls = <<>>

C14_Witness ==
    /\ Answered /\ ChecksPassed(completed) /\ completed.fname = <<>>
    /\ ~allowed_file(completed.fname)
    /\ completed.resp.status = 400 /\ completed.resp.detail.msg = "No file selected"

\* The request was answered out of process_audio_file's try block.
IngestFailed(q) == q.pc = "done" /\ q.hasPath /\ q.sig = NoSig

\* The step of process_audio_file that raised, by the steps the request completed.
FailedStep(q) ==
    IF q.opens = 0 THEN {"open"}
    ELSE IF q.saves = 0 THEN {"read", "write"}
    ELSE IF q.norms = 0 THEN {"file_not_found", "decode"}
    ELSE {"preprocess"}

\* C15: a request that fails while its upload is saved, decoded or normalized
\* is answered once, with status 500 and a message naming the step's own
\* error; no step is run a second time, no predict is invoked and the
\* temporary file does not exist when the answer is sent.
C15_IngestFailureReported ==
    (Answered /\ IngestFailed(completed)) =>
        /\ completed.resp.status = 500 /\ ~completed.resp.success
        /\ completed.resp.families = {}
        /\ completed.resp.detail.msg = "Error processing audio file"
        /\ completed.resp.detail.cause \in FailedStep(completed)
        /\ completed.opens <= 1 /\ completed.saves <= 1
        /\ completed.decodes <= 1 /\ completed.norms <= 1
        /\ completed.calls = <<>>
        /\ ~files[completed.path].exists

C15_Witness ==
    /\ Answered /\ IngestFailed(completed) /\ completed.norms = 1
    /\ completed.resp.status = 500 /\ completed.resp.detail.cause = "preprocess"
    /\ completed.calls = <<>> /\ ~files[completed.path].exists

Attempted(f) == \E i \in 1..Len(loadLog) : loadLog[i].fam = f

NoRetry == \A i, j \in 1..Len(loadLog) : loadLog[i].fam = loadLog[j].fam => i = j

AdapterOf(f) ==
    CASE f = "age_gender"  -> age_gender_model
      [] f = "nationality" -> nationality_model
      [] f = "emotion"     -> emotion_model

NoAdapter(f) ==
    CASE f = "age_gender"  -> NoAgeGender
      [] f = "nationality" -> NoNationality
      [] f = "emotion"     -> NoEmotion

\* C16 as stated: once the service is serving, load() has been called on every
\* adapter, and on none of them twice.
C16_EveryLoadAttempted ==
    phase = "serving" => ((\A f \in Families : Attempted(f)) /\ NoRetry)

\* load() was called in the order age/gender, nationality, emotion, up to and
\* including the first call that returned False; the adapters after that one
\* were not constructed.
LoadedUpToFirstFailure ==
    /\ IsPrefix([i \in 1..Len(loadLog) |-> loadLog[i].fam],
                <<"age_gender", "nationality", "emotion">>)
    /\ \A i \in 1..Len(loadLog) : i < Len(loadLog) => loadLog[i].ok
    /\ \A f \in Families : ~Attempted(f) => AdapterOf(f) = NoAdapter(f)

\* C16 amended: at startup the adapters are loaded in the order age/gender,
\* nationality, emotion, and loading stops at the first load() that fails: the
\* adapters after it are never constructed or loaded.  After startup no load()
\* is called and neither the adapters nor their references change, so a
\* service that started with an adapter not loaded stays so.
C16_LoadStopsAtFirstFailure ==
    /\ [](phase = "serving" => (LoadedUpToFirstFailure /\ NoRetry))
    /\ [][phase = "serving" =>
            /\ phase' = phase
            /\ loadLog' = loadLog
            /\ age_gender_model' = age_gender_model
            /\ nationality_model' = nationality_model
            /\ emotion_model' = emotion_model]_vars

\* A request answered by a service whose nationality load() failed at startup.
C16_Witness ==
    /\ phase = "serving" /\ Answered
    /\ Len(loadLog) = 2 /\ loadLog[1].ok /\ ~loadLog[2].ok
    /\ ~Attempted("emotion") /\ emotion_model = NoEmotion

\* The single-family endpoint of a family.
EndpointOf(f) ==
    CASE f = "age_gender"  -> "predict_age_and_gender"
      [] f = "nationality" -> "predict_nationality"
      [] f = "emotion"     -> "predict_emotion"

\* C17: while a family's adapter is not loaded (no load() on it returned
\* True), every request to that family's endpoint is answered 500
\* "<family> model not loaded", and a request to the endpoint of a family
\* whose adapter did load is never refused as not loaded.
C17_UnloadedFamilyIsolated ==
    \A f \in Families :
        (Answered /\ completed.ep = EndpointOf(f)) =>
            IF LoadSucceeded(f)
            THEN completed.resp.detail.msg # NotLoadedMsg(f)
            ELSE /\ completed.resp.status = 500
                 /\ completed.resp.detail.msg = NotLoadedMsg(f)

\* C18: a predict call on an adapter on which no load() returned True raises
\* the adapter's "Model not loaded" error, also when load() had set some of
\* the adapter's fields before it failed.
C18_PredictNeedsSuccessfulLoad ==
    /\ \A r \in Requests : \A i \in 1..Len(rq[r].calls) : LoadSucceeded(rq[r].calls[i].fam)
    /\ Answered =>
          \A i \in 1..Len(completed.calls) :
              ~LoadSucceeded(completed.calls[i].fam) =>
                  /\ completed.calls[i].outcome = "raised"
                  /\ completed.resp.detail.msg = "Model not loaded. Call load() first."

\* C19: a loaded adapter stays as load() left it: no step of the serving
\* service, and in particular no predict call, returning or raising, changes
\* an adapter's fields or the service's reference to it, so in every state an
\* adapter that was loaded passes the endpoint checks and its own guard.
C19_AdaptersReadOnly ==
    /\ [](\A f \in Families :
              LoadSucceeded(f) => (CheckPasses(f) /\ PredictReady(f) /\ CanReturn(f)))
    /\ [][phase = "serving" =>
              \A f \in Families : AdapterOf(f)' = AdapterOf(f)]_vars

\* A predict call on a loaded adapter has raised and the adapter is as loaded.
C19_Witness ==
    /\ Answered /\ completed.ep = "predict_all" /\ Len(completed.calls) = 2
    /\ completed.calls[2].outcome = "raised"
    /\ \A f \in Families : LoadSucceeded(f)
    /\ nationality_model = NationalityModel_load("ok")
    /\ completed.resp.detail.msg = PredictionErrorMsg("nationality")

\* C20: the readiness endpoint reports a family as loaded exactly when a
\* request to that family's endpoint would pass the model check in the same
\* state; serving it makes no predict or load call, touches no file and
\* changes neither the adapters nor the requests in flight.
C20_ReadinessReport ==
    /\ []((Answered /\ completed.ep = "root") =>
            /\ \A f \in Families :
                  completed.resp.models_loaded[f] <=> (FirstFailedCheck(EndpointOf(f)) = 0)
            /\ completed.resp.status = 200
            /\ completed.calls = <<>> /\ completed.opens = 0 /\ ~completed.hasPath)
    /\ [][(completed'.pc = "done" /\ completed'.ep = "root") =>
            UNCHANGED <<phase, age_gender_model, nationality_model, emotion_model,
                        loadLog, now, files, running, rq>>]_vars

\* A report that says loaded for one family and not loaded for another, served
\* while a request is in flight.
C20_Witness ==
    /\ Answered /\ completed.ep = "root"
    /\ completed.resp.models_loaded.age_gender
    /\ ~completed.resp.models_loaded.nationality
    /\ InFlight # {}

\* The request ran to the end of its handler's try block.
RanThrough(q) ==
    /\ Len(q.calls) = Len(EndpointFamilies(q.ep))
    /\ AllReturned(q.calls)
    /\ ~LoggingRaises(q.ep)

FailureBody(resp) ==
    /\ resp.status \in {400, 500} /\ ~resp.success
    /\ resp.detail.msg # "none"
    /\ resp.families = {} /\ resp.times = NoTimes

C25_ReadyOnlyIfLoaded ==
    /\ \A f \in Families : CheckPasses(f) => LoadSucceeded(f)
    /\ \A f \in Families : PredictReady(f) => LoadSucceeded(f)
    /\ (Answered /\ completed.ep = "root") =>
          \A f \in Families : completed.resp.models_loaded[f] => LoadSucceeded(f)

\* C26: while a request is at its predict calls, its temporary file, which it
\* has written and decoded, does not exist, and it does not exist when a
\* request that made a predict call is answered.
C26_NoTempFileDuringInference ==
    /\ \A r \in Requests :
          rq[r].pc = "predict" =>
              /\ rq[r].hasPath /\ rq[r].saves = 1 /\ rq[r].decodes = 1
              /\ ~files[rq[r].path].exists
    /\ running # 0 => rq[running].pc = "predict"
    /\ (Answered /\ completed.calls # <<>>) => ~files[completed.path].exists

\* A request between its first and second predict calls while another
\* request's temporary file exists.
C26_Witness ==
    \E r, r2 \in Requests :
        /\ rq[r].pc = "predict" /\ running = r /\ Len(rq[r].calls) = 1
        /\ ~files[rq[r].path].exists
        /\ rq[r2].pc = "reading" /\ files[rq[r2].path].exists

(***************************************************************************)
(* The normalizer on its own                                               *)
(***************************************************************************)
Bound == MAX_DURATION_SECONDS * SAMPLING_RATE

NormRates == {8000, 16000, 22050, 44100, 48000}
NormChannels == {1, 2}

\* Sample counts at rate sr: one, five seconds, 200 seconds, around the count
\* whose resampled length is the bound, and around the bound itself.
NormLens(sr) ==
    {1, 5 * sr, 200 * sr}
      \cup {MAX_DURATION_SECONDS * sr + d : d \in (0 - LenSlack)..LenSlack}
      \cup {Bound + d : d \in (0 - LenSlack)..LenSlack}

NormInit ==
    /\ SvcInit
    /\ nPhase = "input"
    /\ nSr \in NormRates
    /\ \E n \in NormLens(nSr), c \in NormChannels :
          nIn = [src |-> "in", ops |-> <<>>, off |-> 0, len |-> n, ch |-> c, dtype |-> "float32"]
    /\ nOut = NoSig /\ nOut2 = NoSig /\ nClip = [audio |-> NoArr, clipped |-> FALSE]
    /\ TimeOff /\ OtherOff

NormOnce ==
    /\ nPhase = "input"
    /\ nOut' = preprocess_audio(nIn, nSr)
    /\ nPhase' = "once"
    /\ UNCHANGED <<nIn, nSr, nOut2, nClip>>
    /\ UNCHANGED <<svcVars, timeVars, otherVars>>

NormTwice ==
    /\ nPhase = "once"
    /\ nOut2' = preprocess_audio(nOut.audio, nOut.sr)
    /\ nPhase' = "twice"
    /\ UNCHANGED <<nIn, nSr, nOut, nClip>>
    /\ UNCHANGED <<svcVars, timeVars, otherVars>>

\* clip_audio_to_max_duration on its own, on a one-channel signal.
NormClip ==
    /\ nPhase = "input"
    /\ nIn.ch = 1
    /\ nClip' = clip_audio_to_max_duration(nIn, nSr, MAX_DURATION_SECONDS)
    /\ nPhase' = "clipped"
    /\ UNCHANGED <<nIn, nSr, nOut, nOut2>>
    /\ UNCHANGED <<svcVars, timeVars, otherVars>>

NormNext == NormOnce \/ NormTwice \/ NormClip

SpecNorm == NormInit /\ [][NormNext]_vars

(***************************************************************************)
(* Properties of the normalizer (SpecNorm)                                 *)
(***************************************************************************)
\* The sample count of the input once it is at 16000 Hz.
LenAt16k == IF nSr = SAMPLING_RATE THEN nIn.len ELSE ResampleLen(nIn.len, nSr, SAMPLING_RATE)

\* C5: the output of preprocess_audio has one channel, rate 16000 and at most
\* MAX_DURATION_SECONDS * 16000 samples, and it is the sample count after
\* resampling that is held to the bound: the output is clipped exactly when
\* that count exceeds it.
C5_CanonicalForm ==
    nPhase \in {"once", "twice"} =>
        /\ nOut.audio.ch = 1
        /\ nOut.sr = 16000
        /\ nOut.audio.len <= MAX_DURATION_SECONDS * 16000
        /\ nOut.audio.len = Min(LenAt16k, MAX_DURATION_SECONDS * 16000)
        /\ nOut.clipped <=> (LenAt16k > MAX_DURATION_SECONDS * 16000)

\* An 8000 Hz input below the bound's sample count that is clipped after resampling.
C5_Witness ==
    /\ nPhase = "once" /\ nSr = 8000 /\ nIn.ch = 2
    /\ nIn.len < Bound /\ nOut.clipped /\ nOut.audio.len = Bound

\* Indices at which two arrays are compared sample by sample.
Probes(n) == {i \in {0, 1, n \div 2, n - 2, n - 1} : 0 <= i /\ i < n}

\* C6: on a 16000 Hz signal clip_audio_to_max_duration reports a clip exactly
\* when the signal has more than MAX_DURATION_SECONDS * 16000 samples, and then
\* returns that many samples, the first ones in their order; otherwise it
\* returns the signal as it is.
C6_ClipPrefix ==
    (nPhase = "clipped" /\ nSr = 16000) =>
        /\ nClip.clipped <=> (nIn.len > MAX_DURATION_SECONDS * 16000)
        /\ nClip.clipped =>
              /\ nClip.audio.len = MAX_DURATION_SECONDS * 16000
              /\ \A i \in Probes(nClip.audio.len) : Sample(nClip.audio, i) = Sample(nIn, i)
        /\ ~nClip.clipped => nClip.audio = nIn

C6_Witness ==
    /\ nPhase = "clipped" /\ nSr = 16000 /\ nIn.len = 200 * 16000
    /\ nClip.clipped /\ nClip.audio.len = 120 * 16000

\* C7: a one-channel 16000 Hz signal no longer than the bound comes out of
\* preprocess_audio with the same samples in the same order and the same
\* count, at rate 16000 and not clipped: nothing is resampled or cut.
C7_PassThrough ==
    (nPhase \in {"once", "twice"} /\ nIn.ch = 1 /\ nSr = 16000
         /\ nIn.len <= MAX_DURATION_SECONDS * 16000) =>
        /\ nOut.audio.len = nIn.len
        /\ \A i \in Probes(nIn.len) : Sample(nOut.audio, i) = Sample(nIn, i)
        /\ nOut.audio.ops = <<>>
        /\ nOut.sr = 16000
        /\ ~nOut.clipped

C7_Witness ==
    /\ nPhase = "once" /\ nIn.ch = 1 /\ nSr = 16000 /\ nIn.len = Bound
    /\ nOut.audio = nIn /\ ~nOut.clipped

\* C8 as stated: preprocess_audio applied to its own output returns what the
\* first application returned (signal, rate and clipped flag).
C8_SameResultTwice == nPhase = "twice" => nOut2 = nOut

\* C8 amended: the second application returns the signal and the rate of the
\* first, and reports no clip.
C8_IdempotentSignal ==
    nPhase = "twice" =>
        /\ nOut2.audio = nOut.audio
        /\ nOut2.sr = nOut.sr
        /\ ~nOut2.clipped

C8_Witness ==
    /\ nPhase = "twice" /\ nOut.clipped /\ nIn.ch = 2 /\ nSr = 44100
    /\ nOut2.audio = nOut.audio

(***************************************************************************)
(* The time stamps of predict_all.  The clock counts thirds of a           *)
(* millisecond; time passes between any two statements of the handler.     *)
(***************************************************************************)
\* round(x, 3) of a duration in seconds: the nearest millisecond.
Round3(d) == (d + 1) \div 3

\* Faulty variant of ProcessingTime: total adds up the three prediction times.
ProcessingTimeSummed(mk) ==
    [total       |-> Round3((mk["age_prediction_end"] - mk["age_prediction_start"])
                            + (mk["nationality_prediction_end"] - mk["nationality_prediction_start"])
                            + (mk["emotion_prediction_end"] - mk["emotion_prediction_start"])),
     age_gender  |-> Round3(mk["age_prediction_end"] - mk["age_prediction_start"]),
     nationality |-> Round3(mk["nationality_prediction_end"] - mk["nationality_prediction_start"]),
     emotion     |-> Round3(mk["emotion_prediction_end"] - mk["emotion_prediction_start"])]

\* main.py:439-444  the response's "processing_time"
ProcessingTime(mk) ==
    [total       |-> Round3(mk["endpoint_end"] - mk["endpoint_start"]),
     age_gender  |-> Round3(mk["age_prediction_end"] - mk["age_prediction_start"]),
     nationality |-> Round3(mk["nationality_prediction_end"] - mk["nationality_prediction_start"]),
     emotion     |-> Round3(mk["emotion_prediction_end"] - mk["emotion_prediction_start"])]

TimePasses ==
    /\ clock < MaxTicks
    /\ clock' = clock + 1
    /\ UNCHANGED <<tpc, marks, processing_time>>
    /\ UNCHANGED <<svcVars, normVars, otherVars>>

\* x = time.time(), for the handler's next time stamp x.
TakeStamp ==
    /\ tpc < Len(StampOrder)
    /\ marks' = [marks EXCEPT ![StampOrder[tpc + 1]] = clock]
    /\ tpc' = tpc + 1
    /\ UNCHANGED <<clock, processing_time>>
    /\ UNCHANGED <<svcVars, normVars, otherVars>>

\* The success response is built (main.py:432-449).
Respond ==
    /\ tpc = Len(StampOrder)
    /\ processing_time' = ProcessingTime(marks)
    /\ tpc' = tpc + 1
    /\ UNCHANGED <<clock, marks>>
    /\ UNCHANGED <<svcVars, normVars, otherVars>>

TimeNext == TimePasses \/ TakeStamp \/ Respond

SpecTime == Init /\ [][TimeNext]_vars

(***************************************************************************)
(* Properties of the time stamps (SpecTime)                                *)
(***************************************************************************)
Responded == tpc = Len(StampOrder) + 1

FamilyTimes ==
    processing_time.age_gender + processing_time.nationality + processing_time.emotion

NumLanguages == 6

\* logits range over 0..MaxLogit
MaxLogit == 2

\* torch.topk(probabilities, k=5)
TOP_K == 5

\* exp(x) up to the base: strictly increasing and positive, as exp is
RECURSIVE Pow2(_)
Pow2(n) == IF n = 0 THEN 1 ELSE 2 * Pow2(n - 1)

RECURSIVE SumOver(_, _)
SumOver(w, D) ==
    IF D = {} THEN 0
    ELSE LET i == CHOOSE j \in D : TRUE
         IN w[i] + SumOver(w, D \ {i})

\* softmax(x)[i] = exp(x[i]) / sum_j exp(x[j]), kept as an exact fraction
Softmax(x) ==
    LET w == [i \in DOMAIN x |-> Pow2(x[i])]
        S == SumOver(w, DOMAIN x)
    IN [i \in DOMAIN x |-> [num |-> w[i], den |-> S]]

\* p <= q on fractions
PLeq(p, q) == p.num * q.den <= q.num * p.den

PEq(p, q) == p.num * q.den = q.num * p.den

\* torch.argmax / np.argmax on integers: the first index holding the
\* maximum
Argmax(x) ==
    CHOOSE i \in DOMAIN x :
        /\ \A j \in DOMAIN x : x[j] <= x[i]
        /\ \A j \in DOMAIN x : x[j] = x[i] => i <= j

\* the same on probabilities
ArgmaxP(P) ==
    CHOOSE i \in DOMAIN P :
        /\ \A j \in DOMAIN P : PLeq(P[j], P[i])
        /\ \A j \in DOMAIN P : PEq(P[j], P[i]) => i <= j

\* torch.topk: the k largest values with their indices, largest first;
\* which of several equal values comes first is not specified, so every
\* order among equal values is a possible result
RECURSIVE TopKFrom(_, _, _)
TopKFrom(P, S, k) ==
    IF k = 0 \/ S = {} THEN {<< >>}
    ELSE LET best == {i \in S : \A j \in S : PLeq(P[j], P[i])}
         IN UNION {{<<i>> \o t : t \in TopKFrom(P, S \ {i}, k - 1)} : i \in best}

\* self.model.config.id2label of the language model
LanguageCodes == <<"ara", "cmn", "deu", "eng", "fra", "hin", "ita", "jpn">>

LanguageIds == 0..(NumLanguages - 1)

id2label(lang_id) == LanguageCodes[lang_id + 1]

\* NationalityModel.predict after the forward pass; topk is the index
\* list torch.topk returned
NationalityModel_predict(outputs, topk) ==
    LET probabilities == Softmax(outputs)
        top_languages == [n \in 1..Len(topk) |->
                            [language_code |-> id2label(topk[n]),
                             probability |-> probabilities[topk[n]]]]
        predicted_lang_id == Argmax(outputs)
    IN [fam |-> "nationality",
        predicted_language |-> id2label(predicted_lang_id),
        confidence |-> probabilities[predicted_lang_id],
        top_languages |-> top_languages]

gender_labels_swapped == <<"male", "female", "child">>

\* gender_labels = ['female', 'male', 'child']
gender_labels == <<"female", "male", "child">>

\* AgeGenderModel.predict after the model call, gender part; the logits
\* arrive as the dict {'female', 'male', 'child'}
AgeGenderModel_predict(gender_logits) ==
    LET gender_values == <<gender_logits.female, gender_logits.male,
                           gender_logits.child>>
        gender_probs == Softmax(gender_values)
        gender_probabilities ==
            [label \in {gender_labels[n] : n \in 1..3} |->
                gender_probs[CHOOSE n \in 1..3 : gender_labels[n] = label]]
        predicted_gender == gender_labels[ArgmaxP(gender_probs)]
        max_probability ==
            gender_probs[CHOOSE n \in 1..3 :
                            \A m \in 1..3 : PLeq(gender_probs[m], gender_probs[n])]
    IN [fam |-> "age_gender",
        predicted_gender |-> predicted_gender,
        probabilities |-> gender_probabilities,
        confidence |-> max_probability]

EmotionIds == 0..7

EMOTION_MAPPING_collapsed ==
    [l \in {"LABEL_0", "LABEL_1", "LABEL_2", "LABEL_3",
            "LABEL_4", "LABEL_5", "LABEL_6", "LABEL_7"} |->
        CASE l = "LABEL_0" -> "angry"
          [] l = "LABEL_1" -> "neutral"
          [] l = "LABEL_2" -> "disgust"
          [] l = "LABEL_3" -> "fearful"
          [] l = "LABEL_4" -> "happy"
          [] l = "LABEL_5" -> "neutral"
          [] l = "LABEL_6" -> "sad"
          [] l = "LABEL_7" -> "surprised"]

EMOTION_MAPPING ==
    [l \in {"LABEL_0", "LABEL_1", "LABEL_2", "LABEL_3",
            "LABEL_4", "LABEL_5", "LABEL_6", "LABEL_7"} |->
        CASE l = "LABEL_0" -> "angry"
          [] l = "LABEL_1" -> "calm"
          [] l = "LABEL_2" -> "disgust"
          [] l = "LABEL_3" -> "fearful"
          [] l = "LABEL_4" -> "happy"
          [] l = "LABEL_5" -> "neutral"
          [] l = "LABEL_6" -> "sad"
          [] l = "LABEL_7" -> "surprised"]

\* the label set the mapping is written for
GenericLabels ==
    [i \in EmotionIds |->
        CASE i = 0 -> "LABEL_0" [] i = 1 -> "LABEL_1" [] i = 2 -> "LABEL_2"
          [] i = 3 -> "LABEL_3" [] i = 4 -> "LABEL_4" [] i = 5 -> "LABEL_5"
          [] i = 6 -> "LABEL_6" [] i = 7 -> "LABEL_7"]

\* a label set that already carries names, which takes the fallback
NamedLabels ==
    [i \in EmotionIds |->
        CASE i = 0 -> "Angry" [] i = 1 -> "Calm" [] i = 2 -> "Disgust"
          [] i = 3 -> "Fearful" [] i = 4 -> "Happy" [] i = 5 -> "Neutral"
          [] i = 6 -> "Sad" [] i = 7 -> "Surprised"]

\* raw_label.lower() on the labels above
LabelLower(raw_label) ==
    CASE raw_label = "Angry" -> "angry"
      [] raw_label = "Calm" -> "calm"
      [] raw_label = "Disgust" -> "disgust"
      [] raw_label = "Fearful" -> "fearful"
      [] raw_label = "Happy" -> "happy"
      [] raw_label = "Neutral" -> "neutral"
      [] raw_label = "Sad" -> "sad"
      [] raw_label = "Surprised" -> "surprised"
      [] OTHER -> raw_label

\* EmotionModel.load: self.emotion_labels built from the model's id2label
emotion_labels(raw_labels) ==
    [label_id \in DOMAIN raw_labels |->
        IF raw_labels[label_id] \in DOMAIN EMOTION_MAPPING
        THEN EMOTION_MAPPING[raw_labels[label_id]]
        ELSE LabelLower(raw_labels[label_id])]

\* EmotionModel.predict after the forward pass; emotion_scores is filled in
\* the order of emotion_labels, a later id overwriting an equal name
EmotionModel_predict(labels, logits) ==
    LET predictions == Softmax(logits)
        predicted_id == ArgmaxP(predictions)
        names == {labels[i] : i \in DOMAIN labels}
        Last(e) == CHOOSE i \in DOMAIN labels :
                       /\ labels[i] = e
                       /\ \A j \in DOMAIN labels : labels[j] = e => j <= i
        emotion_scores == [e \in names |-> predictions[Last(e)]]
    IN [fam |-> "emotion",
        predicted_emotion |-> labels[predicted_id],
        confidence |-> predictions[predicted_id],
        all_emotions |-> emotion_scores]

\* the logits a forward pass can return, per adapter
DecodeInputs ==
    {[fam |-> "nationality", logits |-> l] :
        l \in [LanguageIds -> 0..MaxLogit]}
    \cup {[fam |-> "age_gender", logits |-> l] :
        l \in [{"female", "male", "child"} -> 0..MaxLogit]}
    \cup {[fam |-> "emotion", id2label |-> L, logits |-> l] :
        L \in {GenericLabels, NamedLabels}, l \in [EmotionIds -> 0..MaxLogit]}

DecodeInit ==
    /\ SvcInit /\ NormOff /\ TimeOff /\ FlaskOff /\ WhisperOff /\ CheckpointOff
    /\ dIn \in DecodeInputs
    /\ dOut = NoResult

NationalityPredict ==
    /\ dIn.fam = "nationality"
    /\ dOut = NoResult
    /\ \E topk \in TopKFrom(Softmax(dIn.logits), DOMAIN dIn.logits, TOP_K) :
           dOut' = NationalityModel_predict(dIn.logits, topk)
    /\ UNCHANGED <<dIn, svcVars, normVars, timeVars, flaskVars, whisperVars, ckptVars>>

AgeGenderPredict ==
    /\ dIn.fam = "age_gender"
    /\ dOut = NoResult
    /\ dOut' = AgeGenderModel_predict(dIn.logits)
    /\ UNCHANGED <<dIn, svcVars, normVars, timeVars, flaskVars, whisperVars, ckptVars>>

EmotionPredict ==
    /\ dIn.fam = "emotion"
    /\ dOut = NoResult
    /\ dOut' = EmotionModel_predict(emotion_labels(dIn.id2label), dIn.logits)
    /\ UNCHANGED <<dIn, svcVars, normVars, timeVars, flaskVars, whisperVars, ckptVars>>

DecodeNext ==
    \/ NationalityPredict
    \/ AgeGenderPredict
    \/ EmotionPredict

SpecDecode == DecodeInit /\ [][DecodeNext]_vars

\* C21: the nationality result's top_languages has exactly 5 entries in
\* descending order of probability, its first entry's language_code is
\* predicted_language and confidence is that entry's probability, also
\* when two labels share the top probability.
C21_TopLanguagesAgree ==
    dOut.fam = "nationality" =>
        LET top == dOut.top_languages
        IN /\ Len(top) = 5
           /\ \A n \in 1..(Len(top) - 1) :
                  PLeq(top[n + 1].probability, top[n].probability)
           /\ top[1].language_code = dOut.predicted_language
           /\ dOut.confidence = top[1].probability

\* C22: in the age/gender result predicted_gender is the label among
\* female, male, child with the largest logit, confidence equals
\* probabilities[predicted_gender], and that is the maximum of the three
\* reported probabilities.
C22_GenderArgmax ==
    dOut.fam = "age_gender" =>
        /\ dOut.predicted_gender \in {"female", "male", "child"}
        /\ \A l \in {"female", "male", "child"} :
               dIn.logits[l] <= dIn.logits[dOut.predicted_gender]
        /\ dOut.confidence = dOut.probabilities[dOut.predicted_gender]
        /\ \A l \in {"female", "male", "child"} :
               PLeq(dOut.probabilities[l], dOut.confidence)

\* C22 witness: a result whose predicted gender is the last label, child,
\* with the other two logits different from each other.
C22_Witness ==
    /\ dOut.fam = "age_gender"
    /\ dOut.predicted_gender = "child"
    /\ dIn.logits.female < dIn.logits.male
    /\ dIn.logits.male < dIn.logits.child

\* C23: in the emotion result all_emotions has one entry for every label
\* of the model's label set, predicted_emotion is the label with the
\* greatest probability, and confidence equals
\* all_emotions[predicted_emotion].
C23_EmotionDistribution ==
    dOut.fam = "emotion" =>
        LET P == Softmax(dIn.logits)
            labels == emotion_labels(dIn.id2label)
        IN /\ Cardinality(DOMAIN dOut.all_emotions) = Cardinality(DOMAIN dIn.id2label)
           /\ \A i \in DOMAIN dIn.id2label :
                  /\ labels[i] \in DOMAIN dOut.all_emotions
                  /\ dOut.all_emotions[labels[i]] = P[i]
           /\ dOut.predicted_emotion \in DOMAIN dOut.all_emotions
           /\ \A e \in DOMAIN dOut.all_emotions :
                  PLeq(dOut.all_emotions[e], dOut.all_emotions[dOut.predicted_emotion])
           /\ dOut.confidence = dOut.all_emotions[dOut.predicted_emotion]

\* C23 witness: a result over the generic label set whose predicted
\* emotion is neither the first nor the last label and is the only one
\* with the greatest logit.
C23_Witness ==
    /\ dOut.fam = "emotion"
    /\ dIn.id2label = GenericLabels
    /\ dOut.predicted_emotion = "happy"
    /\ \A i \in EmotionIds \ {4} : dIn.logits[i] < dIn.logits[4]

\* ---------------------------------------------------------------------
\* SpecFlask: the Flask service's /predict handler (app.py), run by
\* worker threads that share UPLOAD_FOLDER and interleave between the
\* handler's file-system calls.
\* ---------------------------------------------------------------------

\* requests started in one run
MaxFlaskRequests == 2

\* predict_from_file up to the try block: the checks and the path
FlaskStart(t, req) ==
    /\ workers[t].pc \in {"idle", "done"}
    /\ flaskStarted < MaxFlaskRequests
    /\ flaskStarted' = flaskStarted + 1
    /\ workers' = [workers EXCEPT ![t] =
          IF ~req.present
          THEN [pc |-> "done", filepath |-> << >>, ino |-> 0, resp |-> "400 No file uploaded"]
          ELSE IF req.filename = << >>
          THEN [pc |-> "done", filepath |-> << >>, ino |-> 0, resp |-> "400 No file selected"]
          ELSE IF allowed_file(req.filename)
          THEN [pc |-> "save", filepath |-> secure_filename(req.filename),
                ino |-> 0, resp |-> "none"]
          ELSE [pc |-> "done", filepath |-> << >>, ino |-> 0, resp |-> "400 Invalid file type"]]
    /\ UNCHANGED <<upload_folder, flaskIno>>
    /\ UNCHANGED <<svcVars, normVars, timeVars, decodeVars, whisperVars, ckptVars>>

\* file.save(filepath): opens the path for writing (a new inode, or the
\* existing one truncated) and writes; it may raise before the file is
\* made or part-way through writing
FlaskSave(t, outcome) ==
    LET w == workers[t]
        there == upload_folder[w.filepath] # 0
        ino == IF there THEN upload_folder[w.filepath] ELSE flaskIno + 1
    IN /\ w.pc = "save"
       /\ IF outcome = "raise_before"
          THEN /\ workers' = [workers EXCEPT ![t].pc = "exists"]
               /\ UNCHANGED <<upload_folder, flaskIno>>
          ELSE /\ upload_folder' = [upload_folder EXCEPT ![w.filepath] = ino]
               /\ flaskIno' = IF there THEN flaskIno ELSE flaskIno + 1
               /\ workers' = [workers EXCEPT ![t].ino = ino,
                     ![t].pc = IF outcome = "ok" THEN "load" ELSE "exists"]
       /\ UNCHANGED flaskStarted
       /\ UNCHANGED <<svcVars, normVars, timeVars, decodeVars, whisperVars, ckptVars>>

\* librosa.load(filepath) and predict_age_gender: load raises when the
\* path is gone, and either may raise on the content
FlaskLoadPredict(t, ok) ==
    LET w == workers[t]
    IN /\ w.pc \in {"load", "predict"}
       /\ workers' = [workers EXCEPT ![t].pc =
             IF w.pc = "load" /\ upload_folder[w.filepath] = 0 THEN "exists"
             ELSE IF ~ok THEN "exists"
             ELSE IF w.pc = "load" THEN "predict" ELSE "remove"]
       /\ UNCHANGED <<upload_folder, flaskIno, flaskStarted>>
       /\ UNCHANGED <<svcVars, normVars, timeVars, decodeVars, whisperVars, ckptVars>>

\* os.remove(filepath) at the end of the try block, then the success
\* response; os.remove raises when the path is gone
FlaskRemove(t) ==
    LET w == workers[t]
    IN /\ w.pc = "remove"
       /\ IF upload_folder[w.filepath] # 0
          THEN /\ upload_folder' = [upload_folder EXCEPT ![w.filepath] = 0]
               /\ workers' = [workers EXCEPT ![t].pc = "done", ![t].resp = "200 success"]
          ELSE /\ workers' = [workers EXCEPT ![t].pc = "exists"]
               /\ UNCHANGED upload_folder
       /\ UNCHANGED <<flaskIno, flaskStarted>>
       /\ UNCHANGED <<svcVars, normVars, timeVars, decodeVars, whisperVars, ckptVars>>

\* except block: if os.path.exists(filepath)
FlaskExists(t) ==
    LET w == workers[t]
    IN /\ w.pc = "exists"
       /\ workers' = [workers EXCEPT ![t] =
             IF upload_folder[w.filepath] # 0
             THEN [w EXCEPT !.pc = "exremove"]
             ELSE [w EXCEPT !.pc = "done", !.resp = "500 error"]]
       /\ UNCHANGED <<upload_folder, flaskIno, flaskStarted>>
       /\ UNCHANGED <<svcVars, normVars, timeVars, decodeVars, whisperVars, ckptVars>>

\* except block: os.remove(filepath), then the error response; when the
\* path is gone os.remove raises and the exception leaves the handler
FlaskExceptRemove(t) ==
    LET w == workers[t]
    IN /\ w.pc = "exremove"
       /\ IF upload_folder[w.filepath] # 0
          THEN /\ upload_folder' = [upload_folder EXCEPT ![w.filepath] = 0]
               /\ workers' = [workers EXCEPT ![t].pc = "done", ![t].resp = "500 error"]
          ELSE /\ workers' = [workers EXCEPT ![t].pc = "done",
                                             ![t].resp = "cleanup raised"]
               /\ UNCHANGED upload_folder
       /\ UNCHANGED <<flaskIno, flaskStarted>>
       /\ UNCHANGED <<svcVars, normVars, timeVars, decodeVars, whisperVars, ckptVars>>

FlaskNext ==
    \/ \E t \in FlaskWorkers, req \in FlaskRequests : FlaskStart(t, req)
    \/ \E t \in FlaskWorkers, outcome \in {"ok", "raise_before", "raise_partial"} :
           FlaskSave(t, outcome)
    \/ \E t \in FlaskWorkers, ok \in BOOLEAN : FlaskLoadPredict(t, ok)
    \/ \E t \in FlaskWorkers : FlaskRemove(t)
    \/ \E t \in FlaskWorkers : FlaskExists(t)
    \/ \E t \in FlaskWorkers : FlaskExceptRemove(t)

SpecFlask == Init /\ [][FlaskNext]_vars

\* C27: every /predict request that saved its upload into the upload
\* folder has removed that file by the time its response is returned, on
\* success and when saving, decoding or prediction raises, and the cleanup
\* on the error path never raises.
C27_UploadRemoved ==
    \A t \in FlaskWorkers :
        (workers[t].pc = "done" /\ workers[t].ino # 0) =>
            /\ upload_folder[workers[t].filepath] # workers[t].ino
            /\ workers[t].resp # "cleanup raised"

\* ---------------------------------------------------------------------
\* SpecWhisper: WhisperFLEURSEvaluator.run_full_evaluation, its
\* evaluate_subset loop on the main thread and the keyboard-listener
\* threads, which share paused and stop_requested.  A block under
\* pause_lock is one step.
\* ---------------------------------------------------------------------

\* samples each evaluate_subset call selects
NumSamples == 2

\* evaluate_subset up to the loop: empty result lists, a new keyboard
\* thread; call 1 is the language-subset evaluation, call 2 the full one
StartCall ==
    /\ evalLoop.pc = "idle"
    /\ evalLoop.todo # << >>
    /\ evalLoop' = [pc |-> "check", call |-> Head(evalLoop.todo), done |-> 0,
                    todo |-> Tail(evalLoop.todo)]
    /\ listeners' = [listeners EXCEPT ![Head(evalLoop.todo)] = "test"]
    /\ UNCHANGED <<paused, stop_requested, stdin_open, qDuring, results>>
    /\ UNCHANGED <<svcVars, normVars, timeVars, decodeVars, flaskVars, ckptVars>>

\* _keyboard_listener: while not self.stop_requested
ListenerTest(c) ==
    /\ listeners[c] = "test"
    /\ listeners' = [listeners EXCEPT ![c] = IF stop_requested THEN "exited" ELSE "input"]
    /\ UNCHANGED <<paused, stop_requested, evalLoop, stdin_open, qDuring, results>>
    /\ UNCHANGED <<svcVars, normVars, timeVars, decodeVars, flaskVars, ckptVars>>

\* _keyboard_listener: input() returns a line and the branch for it runs
ListenerInput(c, user_input) ==
    /\ listeners[c] = "input"
    /\ stdin_open
    /\ paused' = IF user_input = "p" THEN TRUE
                 ELSE IF user_input = "r" THEN FALSE
                 ELSE paused
    /\ stop_requested' = (stop_requested \/ user_input = "q")
    /\ listeners' = [listeners EXCEPT ![c] = IF user_input = "q" THEN "exited" ELSE "test"]
    /\ qDuring' = IF user_input = "q" /\ evalLoop.pc \in {"check", "sample", "end"}
                  THEN qDuring \cup {evalLoop.call}
                  ELSE qDuring
    /\ UNCHANGED <<evalLoop, stdin_open, results>>
    /\ UNCHANGED <<svcVars, normVars, timeVars, decodeVars, flaskVars, ckptVars>>

\* _keyboard_listener: input() raises EOFError
ListenerEOF(c) ==
    /\ listeners[c] = "input"
    /\ stdin_open' = FALSE
    /\ listeners' = [listeners EXCEPT ![c] = "exited"]
    /\ UNCHANGED <<paused, stop_requested, evalLoop, qDuring, results>>
    /\ UNCHANGED <<svcVars, normVars, timeVars, decodeVars, flaskVars, ckptVars>>

\* _check_pause at the top of an iteration: returns True on
\* stop_requested, False when not paused, and sleeps otherwise
CheckPause ==
    /\ evalLoop.pc = "check"
    /\ stop_requested \/ ~paused
    /\ evalLoop' = [evalLoop EXCEPT !.pc = IF stop_requested THEN "end" ELSE "sample"]
    /\ UNCHANGED <<paused, stop_requested, listeners, stdin_open, qDuring, results>>
    /\ UNCHANGED <<svcVars, normVars, timeVars, decodeVars, flaskVars, ckptVars>>

\* the rest of the iteration: the sample is read and predicted (a failed
\* prediction is counted, not raised) and its result appended
ProcessSample ==
    /\ evalLoop.pc = "sample"
    /\ evalLoop' = [evalLoop EXCEPT !.done = @ + 1,
                       !.pc = IF evalLoop.done + 1 = NumSamples THEN "end" ELSE "check"]
    /\ UNCHANGED <<paused, stop_requested, listeners, stdin_open, qDuring, results>>
    /\ UNCHANGED <<svcVars, normVars, timeVars, decodeVars, flaskVars, ckptVars>>

\* evaluate_subset after the loop: stop_requested is set for the keyboard
\* thread, and the summary divides by len(predictions)
EndCall ==
    /\ evalLoop.pc = "end"
    /\ stop_requested' = TRUE
    /\ IF evalLoop.done = 0
       THEN /\ results' = [results EXCEPT ![evalLoop.call] =
                               [ended |-> TRUE, num_samples |-> 0, raised |-> TRUE]]
            /\ evalLoop' = [evalLoop EXCEPT !.pc = "raised"]
       ELSE /\ results' = [results EXCEPT ![evalLoop.call] =
                               [ended |-> TRUE, num_samples |-> evalLoop.done, raised |-> FALSE]]
            /\ evalLoop' = [evalLoop EXCEPT !.pc = "idle"]
    /\ UNCHANGED <<paused, listeners, stdin_open, qDuring>>
    /\ UNCHANGED <<svcVars, normVars, timeVars, decodeVars, flaskVars, ckptVars>>

MainThread == StartCall \/ CheckPause \/ ProcessSample \/ EndCall

WhisperNext ==
    \/ StartCall
    \/ \E c \in {1, 2} : ListenerTest(c)
    \/ \E c \in {1, 2}, user_input \in {"p", "r", "q", "x"} : ListenerInput(c, user_input)
    \/ \E c \in {1, 2} : ListenerEOF(c)
    \/ CheckPause
    \/ ProcessSample
    \/ EndCall

\* the configurations with at least one evaluation enabled
WhisperInit ==
    /\ SvcInit /\ NormOff /\ TimeOff /\ DecodeOff /\ FlaskOff /\ CheckpointOff
    /\ \E evals \in {<<1, 2>>, <<1>>, <<2>>} : WhisperStart(evals)

\* the main thread keeps running; nothing obliges the user to type
SpecWhisper == WhisperInit /\ [][WhisperNext]_vars /\ WF_vars(MainThread)

\* C28: every evaluate_subset call processes all of its selected samples
\* unless 'q' is entered during that call; the full evaluation that follows
\* the language-subset evaluation is not stopped by stop or pause state
\* the first one left.
C28_EveryCallRunsThrough ==
    \A c \in {1, 2} :
        results[c].ended =>
            \/ (results[c].num_samples = NumSamples /\ ~results[c].raised)
            \/ c \in qDuring

\* C29: while 'p' is in effect, and after 'q', no new sample is started;
\* every processed sample is the next unprocessed one; and once 'q' has
\* been entered, paused or not, the loop stops instead of staying blocked.
C29_PauseResumeQuit ==
    /\ [][(evalLoop.pc = "sample" /\ evalLoop' # evalLoop) =>
            /\ ~paused
            /\ ~stop_requested
            /\ evalLoop'.done = evalLoop.done + 1]_vars
    /\ ((stop_requested /\ evalLoop.pc \in {"check", "sample"})
            ~> evalLoop.pc \notin {"check", "sample"})

\* ---------------------------------------------------------------------
\* SpecCheckpoint: AgeGenderEvaluator.evaluate with its checkpoint file,
\* interrupted and started again.  An interruption loses what is in
\* memory and keeps the file.  Rows are numbered from 0 as in the code; a
\* list entry names the row it came from.
\* ---------------------------------------------------------------------

\* rows of the test set
NumRows == 5

\* a checkpoint is written when (idx + 1) is a multiple of this (50 in
\* the code, brought down to the size of the test set here)
CheckpointEvery == 2

\* interruptions in one run
MaxInterrupts == 2

\* what handling a row gives: a prediction, or one of the three skips
RowOutcomes == {"ok", "missing", "unreadable", "predict_failed"}

\* the lists after the loop body has handled row idx
HandleRow(run, idx) ==
    IF test_df[idx + 1] = "ok"
    THEN [run EXCEPT !.predictions = Append(@, <<"pred", idx>>),
                     !.ground_truth = Append(@, <<"truth", idx>>)]
    ELSE [run EXCEPT !.skipped_files = Append(@, <<"path", idx>>)]

\* the lists of a run from row 0 that nothing interrupts
RECURSIVE Uninterrupted(_)
Uninterrupted(n) ==
    IF n = 0 THEN NoRun("loop")
    ELSE HandleRow(Uninterrupted(n - 1), n - 1)

\* load_checkpoint: the pickled dict, or None when there is no file or
\* it cannot be unpickled
load_checkpoint ==
    IF checkpoint_file.state = "saved" THEN checkpoint_file ELSE NoCheckpoint

start_idx_same_row(checkpoint) == checkpoint.last_processed_idx

\* start_idx = checkpoint['last_processed_idx'] + 1
start_idx(checkpoint) == checkpoint.last_processed_idx + 1

\* evaluate up to the loop: the lists and start_idx from the checkpoint,
\* or empty lists and 0
BeginEvaluate ==
    /\ evalRun.pc \in {"off", "interrupted"}
    /\ evalRun' =
          LET checkpoint == load_checkpoint
          IN IF checkpoint.state = "saved"
             THEN [pc |-> "loop", idx |-> start_idx(checkpoint),
                   start_idx |-> start_idx(checkpoint),
                   predictions |-> checkpoint.predictions,
                   ground_truth |-> checkpoint.ground_truth,
                   skipped_files |-> checkpoint.skipped_files]
             ELSE NoRun("loop")
    /\ UNCHANGED <<test_df, checkpoint_file, interrupts>>
    /\ UNCHANGED <<svcVars, normVars, timeVars, decodeVars, flaskVars, whisperVars>>

\* one iteration up to the checkpoint test; a skipped row goes on to the
\* next row without the test
ProcessRow ==
    /\ evalRun.pc = "loop"
    /\ evalRun.idx < NumRows
    /\ evalRun' =
          LET after == HandleRow(evalRun, evalRun.idx)
          IN IF test_df[evalRun.idx + 1] = "ok" /\ (evalRun.idx + 1) % CheckpointEvery = 0
             THEN [after EXCEPT !.pc = "save"]
             ELSE [after EXCEPT !.idx = @ + 1]
    /\ UNCHANGED <<test_df, checkpoint_file, interrupts>>
    /\ UNCHANGED <<svcVars, normVars, timeVars, decodeVars, flaskVars, whisperVars>>

\* save_checkpoint: the file is opened for writing and the dict dumped;
\* an error is printed and the loop goes on, with the old file when the
\* open failed and a cut-off file when the dump did
SaveCheckpoint(outcome) ==
    /\ evalRun.pc = "save"
    /\ checkpoint_file' =
          CASE outcome = "written" ->
                   [state |-> "saved", predictions |-> evalRun.predictions,
                    ground_truth |-> evalRun.ground_truth,
                    skipped_files |-> evalRun.skipped_files,
                    last_processed_idx |-> evalRun.idx]
            [] outcome = "open_failed" -> checkpoint_file
            [] outcome = "dump_failed" -> [NoCheckpoint EXCEPT !.state = "cut_off"]
    /\ evalRun' = [evalRun EXCEPT !.pc = "loop", !.idx = @ + 1]
    /\ UNCHANGED <<test_df, interrupts>>
    /\ UNCHANGED <<svcVars, normVars, timeVars, decodeVars, flaskVars, whisperVars>>

\* the process is stopped: between iterations, or inside save_checkpoint
\* before or after the file was opened for writing
Interrupt(cut) ==
    /\ evalRun.pc \in {"loop", "save"}
    /\ interrupts < MaxInterrupts
    /\ interrupts' = interrupts + 1
    /\ evalRun' = NoRun("interrupted")
    /\ checkpoint_file' =
          IF evalRun.pc = "save" /\ cut
          THEN [NoCheckpoint EXCEPT !.state = "cut_off"]
          ELSE checkpoint_file
    /\ UNCHANGED test_df
    /\ UNCHANGED <<svcVars, normVars, timeVars, decodeVars, flaskVars, whisperVars>>

\* evaluate after the loop: the metrics (mean_absolute_error raises on
\* empty lists), then the checkpoint file is removed
FinishEvaluate ==
    /\ evalRun.pc = "loop"
    /\ evalRun.idx = NumRows
    /\ IF evalRun.predictions = << >>
       THEN /\ evalRun' = [evalRun EXCEPT !.pc = "raised"]
            /\ UNCHANGED checkpoint_file
       ELSE /\ evalRun' = [evalRun EXCEPT !.pc = "returned"]
            /\ checkpoint_file' = NoCheckpoint
    /\ UNCHANGED <<test_df, interrupts>>
    /\ UNCHANGED <<svcVars, normVars, timeVars, decodeVars, flaskVars, whisperVars>>

CheckpointNext ==
    \/ BeginEvaluate
    \/ ProcessRow
    \/ \E outcome \in {"written", "open_failed", "dump_failed"} : SaveCheckpoint(outcome)
    \/ \E cut \in BOOLEAN : Interrupt(cut)
    \/ FinishEvaluate

CheckpointInit ==
    /\ SvcInit /\ NormOff /\ TimeOff /\ DecodeOff /\ FlaskOff /\ WhisperOff
    /\ \E df \in [1..NumRows -> RowOutcomes] : CheckpointStart(df)

SpecCheckpoint == CheckpointInit /\ [][CheckpointNext]_vars

\* the rows a list of entries came from
RowsOf(list) == {list[n][2] : n \in 1..Len(list)}

\* C30: a run of evaluate that is interrupted at any point and resumed
\* from the last saved checkpoint ends with the prediction, ground-truth
\* and skipped-file lists of an uninterrupted run; every row index is
\* handled exactly once across the checkpointed prefix and the resumed
\* suffix; the prediction and ground-truth lists always have equal length.
C30_ResumeEquivalent ==
    /\ Len(evalRun.predictions) = Len(evalRun.ground_truth)
    /\ \A n \in 1..Len(evalRun.predictions) :
           evalRun.predictions[n][2] = evalRun.ground_truth[n][2]
    /\ evalRun.pc \in {"loop", "save", "returned", "raised"} =>
           LET handled == IF evalRun.pc = "save" THEN evalRun.idx + 1 ELSE evalRun.idx
           IN /\ RowsOf(evalRun.predictions) \cup RowsOf(evalRun.skipped_files)
                     = 0..(handled - 1)
              /\ Len(evalRun.predictions) + Len(evalRun.skipped_files) = handled
    /\ evalRun.pc \in {"returned", "raised"} =>
           /\ evalRun.predictions = Uninterrupted(NumRows).predictions
           /\ evalRun.ground_truth = Uninterrupted(NumRows).ground_truth
           /\ evalRun.skipped_files = Uninterrupted(NumRows).skipped_files

\* C30 witness: a run that was interrupted, started again from a saved
\* checkpoint (not from row 0), and returned with both predictions and
\* skipped files, some of the skipped files from before the checkpoint.
C30_Witness ==
    /\ evalRun.pc = "returned"
    /\ interrupts >= 1
    /\ evalRun.start_idx > 0
    /\ \E n \in 1..Len(evalRun.skipped_files) :
           evalRun.skipped_files[n][2] < evalRun.start_idx
    /\ \E n \in 1..Len(evalRun.skipped_files) :
           evalRun.skipped_files[n][2] >= evalRun.start_idx

====
